---- MODULE Spec2Model ----
(***************************************************************************)
(* The Express application of src/index.js: an HTTP relay with one         *)
(* key-protected endpoint, POST /ask-ai, that forwards a chat message to   *)
(* the OpenAI chat-completion API.                                         *)
(*                                                                         *)
(* State: the configured CORS origin, the rate limiter's per-key hit       *)
(* counters, and one record per client connection holding the request it   *)
(* carries, the middleware it passed and the response it got.              *)
(*                                                                         *)
(* Library behaviour (express 4, cors 2, express-rate-limit, body-parser)   *)
(* is modelled at the place src/index.js configures it.  Express 4 is the   *)
(* version in use: app.use("*", ...) of line 156 is rejected by the path    *)
(* compiler of express 5.                                                   *)
(***************************************************************************)
EXTENDS Integers, Sequences, FiniteSets, TLC

\* ------------------------------------------------------------------ bounds
\* Requests one IP may send past the limit before the model stops it.
Over == 2
\* Connections open at once in SpecConc.
MaxConn == 2

\* ------------------------------------------------------------- JS values
Undefined == [t |-> "undefined"]
Null == [t |-> "null"]
False == [t |-> "boolean", v |-> FALSE]
Num(n) == [t |-> "number", v |-> n]
\* A string is the sequence of its characters.
Str(s) == [t |-> "string", v |-> s]
Arr(s) == [t |-> "array", v |-> s]

\* !x is FALSE
Truthy(x) ==
    CASE x.t = "undefined" -> FALSE
      [] x.t = "null" -> FALSE
      [] x.t = "boolean" -> x.v
      [] x.t = "number" -> x.v # 0
      [] x.t = "string" -> Len(x.v) > 0
      [] OTHER -> TRUE

typeof(x) == IF x.t = "null" THEN "object" ELSE x.t

IsSpace(ch) == ch \in {" ", "\n", "\t"}

RECURSIVE trimStart(_)
trimStart(s) == IF s # <<>> /\ IsSpace(Head(s)) THEN trimStart(Tail(s)) ELSE s

RECURSIVE trimEnd(_)
trimEnd(s) ==
    IF s # <<>> /\ IsSpace(s[Len(s)]) THEN trimEnd(SubSeq(s, 1, Len(s) - 1)) ELSE s

\* trimStart in the place of trim.
trimStartOnly(s) == trimStart(s)

\* String.prototype.trim
trim(s) == trimEnd(trimStart(s))

\* ---------------------------------------------------------- configuration
\* process.env.API_KEY; the process exits at start-up when it is empty.
API_KEY == Str(<<"k", "1">>)

\* The two values process.env.CLIENT_PORTFOLIO_URL is given in the model.
PortfolioUrl == Str(<<"https://portfolio.example">>)
PortfolioSettings == {Undefined, PortfolioUrl}

SakhileDumisaBioContext == Str(<<"You are the AI assistant for Sakhile Dumisa">>)

\* rateLimit({max: 50})
max == 50

VARIABLES
    CLIENT_PORTFOLIO_URL,   \* process.env.CLIENT_PORTFOLIO_URL, fixed at start-up
    hits,                   \* the limiter's store: key -> hits in the current window
    conn                    \* connection -> the exchange it carries

vars == <<CLIENT_PORTFOLIO_URL, hits, conn>>

\* ---------------------------------------------------------------- inputs
IPs == {"a", "b"}
Methods == {"GET", "HEAD", "POST", "OPTIONS"}
\* A path stands for every URL express 4 matches to the same route.
Paths == {"/", "/health", "/ask-ai", "/other"}
\* req.headers["x-api-key"]: absent, empty, a wrong key, the key.
KeyHeaders == {Undefined, Str(<<>>), Str(<<"k", "2">>), API_KEY}
\* req.headers.origin
OtherOrigin == Str(<<"https://evil.example">>)

\* The `message` member of a JSON body: absent, a number, "", "hi".
Messages == {Undefined, Num(7), Str(<<>>), Str(<<"h", "i">>)}
NoBody == [kind |-> "none"]
Malformed == [kind |-> "malformed"]
Json(m) == [kind |-> "json", message |-> m]
Bodies(method, path) ==
    IF method = "POST" /\ path = "/ask-ai"
    THEN {NoBody, Malformed} \cup {Json(m) : m \in Messages}
    ELSE {NoBody, Malformed}

Request(ip, origin, method, path, key, body) ==
    [ip |-> ip, origin |-> origin, method |-> method, path |-> path,
     key |-> key, body |-> body]

\* Spec: one client, every method, path, key header and body.
Requests ==
    UNION {{Request("a", Undefined, m, p, k, b) : k \in KeyHeaders, b \in Bodies(m, p)} :
           <<m, p>> \in Methods \X Paths}

\* One request per kind of endpoint, for the specifications with several
\* clients, origins or connections.
Endpoints ==
    {<<"GET", "/", Undefined, NoBody>>,
     <<"GET", "/health", Undefined, NoBody>>,
     <<"POST", "/ask-ai", Undefined, Json(Str(<<"h", "i">>))>>,
     <<"POST", "/ask-ai", API_KEY, Json(Num(7))>>,
     <<"POST", "/ask-ai", API_KEY, Json(Str(<<"h", "i">>))>>,
     <<"GET", "/other", Undefined, NoBody>>,
     <<"OPTIONS", "/ask-ai", Undefined, NoBody>>}

ClientRequests ==
    {Request(ip, Undefined, e[1], e[2], e[3], e[4]) : ip \in IPs, e \in Endpoints}

CorsRequests ==
    {Request("a", o, e[1], e[2], e[3], e[4]) :
        o \in {Undefined, PortfolioUrl, OtherOrigin}, e \in Endpoints}

ConcRequests ==
    {Request("a", Undefined, e[1], e[2], e[3], e[4]) :
        e \in {<<"GET", "/health", Undefined, NoBody>>,
                <<"POST", "/ask-ai", Undefined, Json(Str(<<"h", "i">>))>>,
                <<"POST", "/ask-ai", API_KEY, Json(Str(<<"h", "i">>))>>}}

\* What openai.chat.completions.create settles with.
Choice(content) == [message |-> [content |-> content]]
Resolved(choices) == [kind |-> "resolved", choices |-> choices]
Rejected(status, msg) ==
    [kind |-> "rejected", error |-> [status |-> status, message |-> msg]]
Outcomes ==
    {Resolved(Arr(<<Choice(Str(<<" ", "o", "k", "\n">>)), Choice(Str(<<"n", "o">>))>>)),
     Resolved(Arr(<<Choice(Str(<<"o", " ", "k">>))>>)),
     Resolved(Arr(<<Choice(Str(<<" ", "\n">>))>>)),
     Resolved(Arr(<<Choice(Str(<<>>))>>)),
     Resolved(Arr(<<Choice(Null)>>)),
     Resolved(Arr(<<>>)),
     Resolved(Undefined),
     Rejected(Num(429), "Rate limit reached for gpt-3.5-turbo in organization org-1"),
     Rejected(Num(401), "Incorrect API key provided: sk-1"),
     Rejected(Num(500), "The server had an error while processing your request"),
     Rejected(Undefined, "Connection error: ECONNREFUSED")}

ConcOutcomes ==
    {Resolved(Arr(<<Choice(Str(<<"o", " ", "k">>))>>)),
     Rejected(Num(429), "Rate limit reached for gpt-3.5-turbo in organization org-1"),
     Rejected(Undefined, "Connection error: ECONNREFUSED")}

\* ------------------------------------------------------------- responses
None == [t |-> "none"]
NoHeader == [t |-> "none"]
\* A response that carries no body (Content-Length: 0, or the answer to a HEAD).
Empty == [raw |-> ""]

Response(status, body, acao) == [status |-> status, body |-> body, acao |-> acao]

\* What a middleware chain hands back: the stages entered, the limiter's store
\* after it, the Access-Control-Allow-Origin header set on the response, and
\* either the response sent or the upstream call the handler awaits.  The
\* answer to a HEAD request goes out without its body.
Sent(req, ctx, status, body) ==
    [stages |-> ctx.stages, store |-> ctx.store, acao |-> ctx.acao,
     res |-> Response(status, IF req.method = "HEAD" THEN Empty ELSE body, ctx.acao),
     call |-> None]

Awaiting(ctx, call) ==
    [stages |-> ctx.stages, store |-> ctx.store, acao |-> ctx.acao,
     res |-> None, call |-> call]

\* ------------------------------------------------------------ middleware
corsOptions == [origin |-> IF Truthy(CLIENT_PORTFOLIO_URL) THEN CLIENT_PORTFOLIO_URL ELSE False,
                optionsSuccessStatus |-> 200]

\* cors(corsOptions): with a falsy origin the middleware does nothing and
\* calls next(); with a fixed origin it sets Access-Control-Allow-Origin to it
\* on every response and itself answers an OPTIONS request.
cors(options, req) ==
    IF ~Truthy(options.origin)
    THEN [end |-> FALSE, acao |-> NoHeader, status |-> 0]
    ELSE [end |-> req.method = "OPTIONS", acao |-> options.origin,
          status |-> options.optionsSuccessStatus]

\* express-rate-limit's default key: the client's address.
keyGenerator(req) == req.ip

\* The limit applied one request late.
limitReachedLate(totalHits) == totalHits > max + 1

\* The request is over the limit when its hit number exceeds max.
limitReached(totalHits) == totalHits > max

TooManyRequests == [error |-> "Too many requests from this IP, please try again later."]

\* express.json() of express 4: req.body is {} when there is no JSON body,
\* the parsed object otherwise; a body that does not parse fails the request
\* with a 400 that express's default error handler renders.
jsonParse(body) ==
    CASE body.kind = "malformed" -> [ok |-> FALSE, body |-> None]
      [] body.kind = "none" -> [ok |-> TRUE, body |-> [message |-> Undefined]]
      [] OTHER -> [ok |-> TRUE, body |-> [message |-> body.message]]

BadRequestPage == [html |-> "Bad Request"]

ApiKeyRequired == [error |-> "API key required. Please provide an X-API-Key header."]
InvalidApiKey == [error |-> "Invalid API key."]

\* apiKeyAuth without its check for a missing header.
apiKeyAuthNo401(clientApiKey) ==
    IF clientApiKey # API_KEY THEN [status |-> 403, body |-> InvalidApiKey]
    ELSE [status |-> 0, body |-> None]

\* apiKeyAuth: 0 stands for next().
apiKeyAuth(clientApiKey) ==
    IF ~Truthy(clientApiKey) THEN [status |-> 401, body |-> ApiKeyRequired]
    ELSE IF clientApiKey # API_KEY THEN [status |-> 403, body |-> InvalidApiKey]
    ELSE [status |-> 0, body |-> None]

StatusOk == [status |-> "OK", message |-> "API is running!"]
MessageRequired == [error |-> "Valid \"message\" string is required."]
ServiceBusy == [error |-> "The AI service is busy. Please try again later."]
InternalError == [error |-> "An internal server error occurred."]
EndpointNotFound == [error |-> "Endpoint not found."]
NoAnswer == <<"I don't have an answer for that.">>

\* The message check reduced to the typeof test.
validMessageTypeOnly(message) == typeof(message) = "string"

\* The message check of the /ask-ai handler.
validMessage(message) == ~(~Truthy(message) \/ typeof(message) # "string")

\* The arguments of openai.chat.completions.create.
createArgs(message) ==
    [model |-> "gpt-3.5-turbo",
     messages |-> <<[role |-> "system", content |-> SakhileDumisaBioContext],
                    [role |-> "user", content |-> message]>>,
     max_tokens |-> 300]

\* The /ask-ai handler up to its await.
askAi(req, ctx) ==
    LET message == ctx.body.message IN
    IF ~validMessage(message)
    THEN Sent(req, ctx, 400, MessageRequired)
    ELSE Awaiting(ctx, createArgs(message))

\* The route POST /ask-ai: apiKeyAuth, then the handler.
askAiRoute(req, ctx) ==
    LET auth == apiKeyAuth(req.key)
        a == [ctx EXCEPT !.stages = Append(@, "apiKeyAuth")]
    IN  IF auth.status # 0
        THEN Sent(req, a, auth.status, auth.body)
        ELSE askAi(req, [a EXCEPT !.stages = Append(@, "askAi")])

\* Routes matched by path alone.
matchesAnyMethod(layer, req) ==
    CASE layer = "GET /" -> req.path = "/"
      [] layer = "GET /health" -> req.path = "/health"
      [] layer = "POST /ask-ai" -> req.path = "/ask-ai"
      [] OTHER -> TRUE

\* app.get also answers HEAD.
matches(layer, req) ==
    CASE layer = "GET /" -> req.method \in {"GET", "HEAD"} /\ req.path = "/"
      [] layer = "GET /health" -> req.method \in {"GET", "HEAD"} /\ req.path = "/health"
      [] layer = "POST /ask-ai" -> req.method = "POST" /\ req.path = "/ask-ai"
      [] OTHER -> TRUE

\* The catch-all registered ahead of the routes.
stackCatchAllFirst ==
    <<"cors", "limiter", "json", "*", "GET /", "GET /health", "POST /ask-ai">>

\* The body parser registered ahead of the limiter.
stackJsonFirst ==
    <<"cors", "json", "limiter", "GET /", "GET /health", "POST /ask-ai", "*">>

\* The layers in the order src/index.js registers them.
stack == <<"cors", "limiter", "json", "GET /", "GET /health", "POST /ask-ai", "*">>

RECURSIVE handle(_, _, _)
handle(layers, req, ctx) ==
    IF layers = <<>>
    THEN Sent(req, ctx, 404, [html |-> "Not Found"])
    ELSE
    LET layer == Head(layers)
        rest == Tail(layers)
        in == [ctx EXCEPT !.stages = Append(@, layer)]
    IN
    CASE layer = "cors" ->
            LET r == cors(corsOptions, req)
                c == [in EXCEPT !.acao = r.acao]
            IN  IF r.end THEN Sent(req, c, r.status, Empty) ELSE handle(rest, req, c)
      [] layer = "limiter" ->
            LET key == keyGenerator(req)
                totalHits == ctx.store[key] + 1
                c == [in EXCEPT !.store = [@ EXCEPT ![key] = totalHits]]
            IN  IF limitReached(totalHits)
                THEN Sent(req, c, 429, TooManyRequests)
                ELSE handle(rest, req, c)
      [] layer = "json" ->
            LET r == jsonParse(req.body)
            IN  IF r.ok THEN handle(rest, req, [in EXCEPT !.body = r.body])
                ELSE Sent(req, in, 400, BadRequestPage)
      [] OTHER ->
            IF ~matches(layer, req) THEN handle(rest, req, ctx)
            ELSE IF layer \in {"GET /", "GET /health"} THEN Sent(req, in, 200, StatusOk)
            ELSE IF layer = "POST /ask-ai" THEN askAiRoute(req, ctx)
            ELSE Sent(req, in, 404, EndpointNotFound)

\* One request through the application.
app(req, store) ==
    handle(stack, req,
           [stages |-> <<>>, store |-> store, acao |-> NoHeader, body |-> None])

\* completion.choices[0]?.message?.content?.trim(); a completion without
\* choices throws a TypeError.
TypeError == [status |-> Undefined, message |-> "Cannot read properties of undefined (reading '0')"]

firstContent(choices) ==
    IF Len(choices.v) = 0 THEN Undefined
    ELSE LET content == choices.v[1].message.content
         IN  IF content.t \in {"undefined", "null"} THEN Undefined
             ELSE Str(trim(content.v))

\* The catch block answering 500 with the error's own message.
catchLeaks(error) ==
    IF error.status = Num(429) THEN <<[status |-> 429, body |-> ServiceBusy]>>
    ELSE <<[status |-> 500, body |-> [error |-> error.message]]>>

\* The catch block without the return of its 429 branch.
catchNoReturn(error) ==
    (IF error.status = Num(429) THEN <<[status |-> 429, body |-> ServiceBusy]>> ELSE <<>>)
    \o <<[status |-> 500, body |-> InternalError]>>

\* The catch block of the /ask-ai handler: the res.json calls it makes.
catch(error) ==
    IF error.status = Num(429) THEN <<[status |-> 429, body |-> ServiceBusy]>>
    ELSE <<[status |-> 500, body |-> InternalError]>>

\* The /ask-ai handler from its await on: the res.json calls it makes.
askAiSettled(outcome) ==
    IF outcome.kind = "rejected" THEN catch(outcome.error)
    ELSE IF outcome.choices.t = "undefined" THEN catch(TypeError)
    ELSE LET content == firstContent(outcome.choices)
             aiResponse == IF Truthy(content) THEN content.v ELSE NoAnswer
         IN  <<[status |-> 200, body |-> [response |-> aiResponse]]>>

\* ---------------------------------------------------------------- actions
Idle ==
    [status |-> "idle", req |-> None, stages |-> <<>>, call |-> None, calls |-> 0,
     outcome |-> None, acao |-> NoHeader, res |-> None, sent |-> 0]

\* A request arrives on the free connection c and runs through the application
\* until the response is sent or the handler awaits the upstream call.
Arrive(c, req) ==
    /\ conn[c].status = "idle"
    /\ hits[req.ip] < max + Over
    /\ LET r == app(req, hits) IN
        /\ hits' = r.store
        /\ conn' = [conn EXCEPT ![c] =
                [status |-> IF r.res = None THEN "awaiting" ELSE "answered",
                 req |-> req, stages |-> r.stages, call |-> r.call,
                 calls |-> IF r.call = None THEN 0 ELSE 1,
                 outcome |-> None, acao |-> r.acao, res |-> r.res,
                 sent |-> IF r.res = None THEN 0 ELSE 1]]
    /\ UNCHANGED CLIENT_PORTFOLIO_URL

\* The upstream call of connection c settles and its handler resumes.  The
\* client receives the first response written.
Settle(c, outcome) ==
    /\ conn[c].status = "awaiting"
    /\ LET out == askAiSettled(outcome) IN
        conn' = [conn EXCEPT ![c].status = IF Len(out) > 0 THEN "answered" ELSE @,
                             ![c].outcome = outcome,
                             ![c].res = IF Len(out) > 0
                                        THEN Response(out[1].status, out[1].body, conn[c].acao)
                                        ELSE @,
                             ![c].sent = @ + Len(out)]
    /\ UNCHANGED <<CLIENT_PORTFOLIO_URL, hits>>

\* The client has read the response; the connection is free for the next request.
Close(c) ==
    /\ conn[c].status = "answered"
    /\ conn' = [conn EXCEPT ![c] = Idle]
    /\ UNCHANGED <<CLIENT_PORTFOLIO_URL, hits>>

\* The limiter's window of one key ends (windowMs after it began).
WindowExpires(key) ==
    /\ hits[key] > 0
    /\ hits' = [hits EXCEPT ![key] = 0]
    /\ UNCHANGED <<CLIENT_PORTFOLIO_URL, conn>>

\* --------------------------------------------------------- specifications
\* After start-up: the configuration read, no hit counted, nothing in flight.
Init ==
    /\ CLIENT_PORTFOLIO_URL \in PortfolioSettings
    /\ hits = [key \in IPs |-> 0]
    /\ conn = [c \in {1} |-> Idle]

InitConc ==
    /\ CLIENT_PORTFOLIO_URL \in PortfolioSettings
    /\ hits = [key \in IPs |-> 0]
    /\ conn = [c \in 1..MaxConn |-> Idle]

\* One client sending every kind of request.
Next ==
    \/ \E c \in DOMAIN conn, req \in Requests : Arrive(c, req)
    \/ \E c \in DOMAIN conn, outcome \in Outcomes : Settle(c, outcome)
    \/ \E c \in DOMAIN conn : Close(c)
    \/ \E key \in IPs : WindowExpires(key)

Spec == Init /\ [][Next]_vars

\* Two clients.
NextClients ==
    \/ \E c \in DOMAIN conn, req \in ClientRequests : Arrive(c, req)
    \/ \E c \in DOMAIN conn, outcome \in Outcomes : Settle(c, outcome)
    \/ \E c \in DOMAIN conn : Close(c)
    \/ \E key \in IPs : WindowExpires(key)

SpecClients == Init /\ [][NextClients]_vars

\* One client, requests from several origins.
NextCors ==
    \/ \E c \in DOMAIN conn, req \in CorsRequests : Arrive(c, req)
    \/ \E c \in DOMAIN conn, outcome \in Outcomes : Settle(c, outcome)
    \/ \E c \in DOMAIN conn : Close(c)
    \/ \E key \in IPs : WindowExpires(key)

SpecCors == Init /\ [][NextCors]_vars

\* Several connections at once; a pending upstream call settles in the end.
NextConc ==
    \/ \E c \in DOMAIN conn, req \in ConcRequests : Arrive(c, req)
    \/ \E c \in DOMAIN conn, outcome \in ConcOutcomes : Settle(c, outcome)
    \/ \E c \in DOMAIN conn : Close(c)
    \/ \E key \in IPs : WindowExpires(key)

SpecConc ==
    /\ InitConc
    /\ [][NextConc]_vars
    /\ \A c \in 1..MaxConn : WF_vars(\E outcome \in ConcOutcomes : Settle(c, outcome))

\* ------------------------------------------------------------ vocabulary
Conns == DOMAIN conn
Answered(c) == conn[c].status = "answered"
\* A step in which a request arrives on c; conn'[c] holds it.
Arrives(c) == conn[c].status = "idle" /\ conn'[c].status # "idle"
IsAskAi(req) == req.method = "POST" /\ req.path = "/ask-ai"
Registered(req) ==
    \/ req.method = "GET" /\ req.path \in {"/", "/health"}
    \/ IsAskAi(req)
\* Fewer than max requests of this client were counted in the window so far.
WithinLimit(req) == hits[req.ip] < max
Parses(req) == req.body.kind # "malformed"
\* The message member is absent, not a string, or the empty string.
BadMessage(req) ==
    \/ req.body.kind = "none"
    \/ req.body.kind = "json" /\ (req.body.message.t # "string" \/ req.body.message.v = <<>>)
\* An OPTIONS request when CLIENT_PORTFOLIO_URL is set: the CORS stage answers it.
Preflight(req) == Truthy(CLIENT_PORTFOLIO_URL) /\ req.method = "OPTIONS"
NoKey(req) == req.key = Undefined
IsErrorBody(body) == DOMAIN body = {"error"}

\* ---------------------------------------------------------------- C1
\* C1, as stated: a POST /ask-ai request without the X-API-Key header is
\* answered 401 and one whose header differs from API_KEY is answered 403,
\* whatever came before.  (Stated here for the bodies that parse and the
\* headers that are not empty only.)
C1_Original ==
    \A c \in Conns :
        Answered(c) /\ IsAskAi(conn[c].req) /\ Parses(conn[c].req) =>
            /\ NoKey(conn[c].req) => conn[c].res.status = 401
            /\ (~NoKey(conn[c].req) /\ conn[c].req.key # Str(<<>>)
                /\ conn[c].req.key # API_KEY) => conn[c].res.status = 403

\* C1, amended: a POST /ask-ai request that is within the rate limit and whose
\* body parses is answered 401 {error} when it carries no X-API-Key header or
\* an empty one, and 403 {error} when it carries a non-empty header that
\* differs from API_KEY, for every such body.
C1_KeyCheck ==
    [][\A c \in Conns :
        LET req == conn'[c].req
            res == conn'[c].res
        IN  Arrives(c) /\ IsAskAi(req) /\ WithinLimit(req) /\ Parses(req) =>
                /\ (NoKey(req) \/ req.key = Str(<<>>)) =>
                        conn'[c].status = "answered" /\ res.status = 401
                        /\ res.body = ApiKeyRequired
                /\ (~NoKey(req) /\ req.key # Str(<<>>) /\ req.key # API_KEY) =>
                        conn'[c].status = "answered" /\ res.status = 403
                        /\ res.body = InvalidApiKey]_vars

C1_Witness ==
    \E c \in Conns :
        /\ Answered(c) /\ IsAskAi(conn[c].req)
        /\ conn[c].req.key = Str(<<"k", "2">>)
        /\ conn[c].req.body = Json(Str(<<"h", "i">>))
        /\ conn[c].res.status = 403

\* ---------------------------------------------------------------- C2
\* C2, as stated: a POST /ask-ai request with the valid key whose message is
\* absent, not a string or empty is answered 400 with an {error} body, and no
\* upstream call is made for it.
C2_Original ==
    \A c \in Conns :
        Answered(c) /\ IsAskAi(conn[c].req) /\ conn[c].req.key = API_KEY
        /\ BadMessage(conn[c].req) =>
            /\ conn[c].res.status = 400
            /\ IsErrorBody(conn[c].res.body)
            /\ conn[c].calls = 0

\* C2, amended: such a request, when it is within the rate limit, is answered
\* 400 with an {error} body; within the limit or not, no upstream call is made
\* for it.
C2_BadMessage ==
    [][\A c \in Conns :
        LET req == conn'[c].req
            res == conn'[c].res
        IN  Arrives(c) /\ IsAskAi(req) /\ req.key = API_KEY /\ BadMessage(req) =>
                /\ conn'[c].status = "answered"
                /\ conn'[c].calls = 0
                /\ WithinLimit(req) => res.status = 400 /\ res.body = MessageRequired
                                       /\ IsErrorBody(res.body)]_vars

C2_Witness ==
    \E c \in Conns :
        /\ Answered(c) /\ IsAskAi(conn[c].req) /\ conn[c].req.key = API_KEY
        /\ conn[c].req.body = Json(Str(<<>>))
        /\ conn[c].res.status = 400
        /\ conn[c].calls = 0

\* ---------------------------------------------------------------- C3
\* C3, as stated: once a client has more than max requests counted in the
\* window, every further request of it is answered 429, whatever the endpoint.
C3_Original ==
    \A c \in Conns :
        Answered(c) /\ hits[conn[c].req.ip] > max => conn[c].res.status = 429

\* C3, amended: once a client has max or more requests counted in the window,
\* every further request of it that reaches the rate-limit stage is answered
\* 429 whatever the endpoint and key; the one exception is an OPTIONS request
\* when CLIENT_PORTFOLIO_URL is set, which the CORS stage answers 200 ahead of
\* the limiter and which is not counted.  A client with fewer than max counted
\* requests is never answered 429 by the limiter, whatever other clients sent;
\* a request changes no counter but its own client's; the count restarts from
\* zero when the window ends.
C3_RateLimit ==
    [][/\ \A c \in Conns :
            LET req == conn'[c].req
                res == conn'[c].res
            IN  Arrives(c) =>
                    /\ ~Preflight(req) /\ ~WithinLimit(req) =>
                            conn'[c].status = "answered" /\ res.status = 429
                            /\ res.body = TooManyRequests
                    /\ WithinLimit(req) /\ conn'[c].status = "answered" =>
                            res.body # TooManyRequests /\ res.status # 429
                    /\ Preflight(req) => res.status = 200 /\ hits' = hits
                    /\ ~Preflight(req) => hits'[req.ip] = hits[req.ip] + 1
                    /\ \A other \in IPs \ {req.ip} : hits'[other] = hits[other]
       /\ \A key \in IPs : hits'[key] < hits[key] => hits'[key] = 0]_vars

C3_Witness ==
    \E c \in Conns :
        /\ Answered(c)
        /\ conn[c].req.ip = "a" /\ conn[c].req.method = "GET" /\ conn[c].req.path = "/health"
        /\ hits["a"] = max + 2 /\ hits["b"] = 1
        /\ conn[c].res.status = 429

\* ---------------------------------------------------------------- C4
\* C4, as stated: a request whose method and path match none of GET /,
\* GET /health, POST /ask-ai is always answered 404 {error: "Endpoint not
\* found."}.  (Stated here for GET and POST requests whose body parses only.)
C4_Original ==
    \A c \in Conns :
        Answered(c) /\ ~Registered(conn[c].req) /\ Parses(conn[c].req)
        /\ conn[c].req.method \in {"GET", "POST"} =>
            conn[c].res.status = 404 /\ conn[c].res.body = EndpointNotFound

\* C4, amended: a request within the rate limit whose body parses, whose
\* method is not HEAD and is not OPTIONS while CLIENT_PORTFOLIO_URL is set,
\* and whose method and path match none of the registered routes, is answered
\* 404 {error: "Endpoint not found."}, with or without a key header.
C4_NotFound ==
    [][\A c \in Conns :
        LET req == conn'[c].req
            res == conn'[c].res
        IN  Arrives(c) /\ ~Registered(req) /\ WithinLimit(req) /\ Parses(req)
            /\ req.method # "HEAD" /\ ~Preflight(req) =>
                /\ conn'[c].status = "answered"
                /\ res.status = 404
                /\ res.body = EndpointNotFound]_vars

C4_Witness ==
    \E c \in Conns :
        /\ Answered(c)
        /\ conn[c].req.method = "GET" /\ conn[c].req.path = "/ask-ai"
        /\ conn[c].req.key = API_KEY
        /\ conn[c].res.status = 404

\* ---------------------------------------------------------------- C5
\* C5: when the upstream call of a POST /ask-ai request fails with status 429
\* the client is answered 429; when it fails in any other way, or reading the
\* completion throws, the client is answered 500; either body is a fixed
\* {error} string that carries nothing of the underlying error.
C5_UpstreamFailure ==
    \A c \in Conns :
        LET o == conn[c].outcome
            res == conn[c].res
            failed == o.kind = "rejected" \/ o.choices.t = "undefined"
            error == IF o.kind = "rejected" THEN o.error ELSE TypeError
        IN  Answered(c) /\ conn[c].calls > 0 /\ failed =>
                /\ (o.kind = "rejected" /\ o.error.status = Num(429)) =>
                        res.status = 429 /\ res.body = ServiceBusy
                /\ ~(o.kind = "rejected" /\ o.error.status = Num(429)) =>
                        res.status = 500 /\ res.body = InternalError
                /\ IsErrorBody(res.body)
                /\ res.body.error # error.message

C5_Witness ==
    \E c \in Conns :
        /\ Answered(c)
        /\ conn[c].outcome = Rejected(Num(401), "Incorrect API key provided: sk-1")
        /\ conn[c].res.status = 500

\* ---------------------------------------------------------------- C6
AllSpace(s) == \A i \in 1..Len(s) : IsSpace(s[i])
\* t is s without the white space at its two ends.
Trimmed(s, t) ==
    /\ \E i \in 1..(Len(s) + 1), j \in 0..Len(s) :
            /\ t = SubSeq(s, i, j)
            /\ AllSpace(SubSeq(s, 1, i - 1))
            /\ AllSpace(SubSeq(s, j + 1, Len(s)))
    /\ t # <<>> => ~IsSpace(t[1]) /\ ~IsSpace(t[Len(t)])

\* C6: a POST /ask-ai request with the valid key and a non-empty string
\* message whose upstream call resolves with a list of choices is answered
\* 200 {response: s}: s is the first choice's content trimmed, or the fixed
\* fallback when there is no first choice, its content is null, or the content
\* is empty once trimmed; s is never empty.  The call carried the biography
\* as system message and the client's message as user message.
C6_Success ==
    \A c \in Conns :
        LET o == conn[c].outcome
            res == conn[c].res
            choices == o.choices.v
            hasText == /\ Len(choices) > 0
                       /\ choices[1].message.content.t = "string"
                       /\ ~AllSpace(choices[1].message.content.v)
        IN  Answered(c) /\ conn[c].calls > 0 /\ o.kind = "resolved" /\ o.choices.t = "array" =>
                /\ res.status = 200
                /\ DOMAIN res.body = {"response"}
                /\ res.body.response # <<>>
                /\ hasText => Trimmed(choices[1].message.content.v, res.body.response)
                /\ ~hasText => res.body.response = NoAnswer
                /\ conn[c].call.messages[1].content = SakhileDumisaBioContext
                /\ conn[c].call.messages[2].content = conn[c].req.body.message
                /\ conn[c].req.key = API_KEY
                /\ ~BadMessage(conn[c].req)

C6_Witness ==
    \E c \in Conns :
        /\ Answered(c) /\ conn[c].calls = 1
        /\ conn[c].outcome = Resolved(Arr(<<Choice(Str(<<" ", "o", "k", "\n">>)),
                                           Choice(Str(<<"n", "o">>))>>))
        /\ conn[c].res.status = 200
        /\ conn[c].res.body = [response |-> <<"o", "k">>]

\* ---------------------------------------------------------------- C7
\* C7, as stated: GET / and GET /health are answered 200 {status: "OK",
\* message: "API is running!"} with or without a key header, whatever came
\* before, and no upstream call is made.
C7_Original ==
    \A c \in Conns :
        Answered(c) /\ conn[c].req.method = "GET" /\ conn[c].req.path \in {"/", "/health"}
        /\ conn[c].req.body = NoBody =>
            /\ conn[c].res.status = 200
            /\ conn[c].res.body = StatusOk
            /\ conn[c].calls = 0

\* C7, amended: GET / and GET /health from a client within the rate limit,
\* with a body that parses or none, are answered 200 {status: "OK", message:
\* "API is running!"} with or without a key header; within the limit or not,
\* no upstream call is made.
C7_Health ==
    [][\A c \in Conns :
        LET req == conn'[c].req
            res == conn'[c].res
        IN  Arrives(c) /\ req.method = "GET" /\ req.path \in {"/", "/health"} =>
                /\ conn'[c].status = "answered"
                /\ conn'[c].calls = 0
                /\ WithinLimit(req) /\ Parses(req) =>
                        res.status = 200 /\ res.body = StatusOk]_vars

C7_Witness ==
    \E c \in Conns :
        /\ Answered(c)
        /\ conn[c].req.method = "GET" /\ conn[c].req.path = "/health"
        /\ NoKey(conn[c].req)
        /\ hits["a"] = max
        /\ conn[c].res.status = 200 /\ conn[c].res.body = StatusOk

\* ---------------------------------------------------------------- C8
IsPrefix(s, t) == Len(s) <= Len(t) /\ s = SubSeq(t, 1, Len(s))
AskAiChain == <<"cors", "limiter", "json", "apiKeyAuth", "askAi">>
Last(s) == s[Len(s)]

\* C8: a request enters CORS, the rate-limit counter, the body parser and (on
\* POST /ask-ai) the key check in that order before the /ask-ai handler, and a
\* stage that answers ends it there.  An upstream call is made exactly for a
\* POST /ask-ai request within the rate limit with the valid key and a valid
\* message, once, and never again when the call settles.  A request answered
\* 400, 401 or 403 was counted by the limiter.
C8_Stages ==
    [][\A c \in Conns :
        /\ Arrives(c) =>
            LET req == conn'[c].req
                x == conn'[c]
                made == IsAskAi(req) /\ WithinLimit(req) /\ Parses(req)
                        /\ req.key = API_KEY /\ ~BadMessage(req)
            IN  /\ \/ IsPrefix(x.stages, AskAiChain)
                   \/ /\ Len(x.stages) = 4
                      /\ IsPrefix(SubSeq(x.stages, 1, 3), AskAiChain)
                      /\ x.stages[4] \in {"GET /", "GET /health", "*"}
                /\ x.calls = (IF made THEN 1 ELSE 0)
                /\ made <=> x.status = "awaiting"
                /\ made => x.stages = AskAiChain /\ x.call.messages[2].content = req.body.message
                /\ x.status = "answered" =>
                    /\ x.res.status = 429 => Last(x.stages) = "limiter"
                    /\ x.res.status \in {401, 403} => Last(x.stages) = "apiKeyAuth"
                    /\ x.res.status \in {400, 401, 403} => hits'[req.ip] = hits[req.ip] + 1
                    /\ Last(x.stages) = "askAi" => ~Preflight(req) /\ x.res.status = 400
        /\ conn[c].status = "awaiting" => conn'[c].calls = conn[c].calls]_vars

C8_Witness ==
    \E c \in Conns :
        /\ Answered(c)
        /\ conn[c].res.status = 401
        /\ conn[c].stages = <<"cors", "limiter", "json", "apiKeyAuth">>
        /\ hits[conn[c].req.ip] = 3

\* ---------------------------------------------------------------- C9
\* C9: while a POST /ask-ai request awaits its upstream call, a request on
\* another connection is accepted and runs to its answer (or to its own
\* upstream call) in one step that leaves the waiting one untouched; every
\* request is sent exactly one response; and a request awaiting its upstream
\* call is answered once the call settles.
C9_Concurrency ==
    /\ [](\A c \in Conns :
            /\ conn[c].sent <= 1
            /\ Answered(c) <=> conn[c].sent = 1)
    /\ [](\A c \in Conns, d \in Conns, req \in ConcRequests :
            (c # d /\ conn[c].status = "awaiting" /\ conn[d].status = "idle"
             /\ hits[req.ip] < max + Over) => ENABLED Arrive(d, req))
    /\ [][\A c \in Conns, d \in Conns :
            (c # d /\ conn[c].status = "awaiting" /\ Arrives(d)) =>
                /\ conn'[c] = conn[c]
                /\ conn'[d].call = None => conn'[d].status = "answered"]_vars
    /\ \A c \in 1..MaxConn : (conn[c].status = "awaiting") ~> Answered(c)

C9_Witness ==
    \E c \in Conns, d \in Conns :
        /\ conn[c].status = "awaiting"
        /\ Answered(d)
        /\ conn[d].req.path = "/health" /\ conn[d].res.status = 200

\* ---------------------------------------------------------------- C10
\* The response lets a page of the request's origin read it.
CorsGranted(req, res) == res.acao = req.origin \/ res.acao = Str(<<"*">>)

\* C10: with CLIENT_PORTFOLIO_URL unset a cross-origin request from any origin
\* is granted CORS access; with it set, exactly the requests from that origin
\* are.
C10_Cors ==
    \A c \in Conns :
        Answered(c) /\ conn[c].req.origin # Undefined =>
            IF Truthy(CLIENT_PORTFOLIO_URL)
            THEN CorsGranted(conn[c].req, conn[c].res)
                    <=> conn[c].req.origin = CLIENT_PORTFOLIO_URL
            ELSE CorsGranted(conn[c].req, conn[c].res)
====
